---- MODULE Spec2Model ----
(***************************************************************************)
(* Normo backend: the incremental document index (PersistentVectorStore,   *)
(* services/vector_store.py, with the chunker of utils/pdf_processor.py),  *)
(* the workflow graph of agents/builder.py with its agents, the retrieve   *)
(* tool of agents/rag_retriever.py with its search for area measurements   *)
(* and its jurisdiction hint, the gate of agents/llm_gate.py, and the      *)
(* conversation storage of services/hybrid_storage.py with its two         *)
(* backends and the /chat handler of api/app.py that writes to it.         *)
(*                                                                         *)
(* Document identities are the integers from 1 on, in the order in which   *)
(* sorted() lists their relative paths (PdfNames).  A file's bytes are a   *)
(* content number; its MD5 digest and its length are functions of that     *)
(* number.  The text of a chunk is the triple of content, page and         *)
(* paragraph it was cut from.                                              *)
(***************************************************************************)
EXTENDS Integers, Sequences, FiniteSets, Bags, TLC

\* ------------------------------------------------------------------ bounds
MaxDocs == 2        \* documents of the corpus
MaxContent == 3     \* distinct byte contents a file can have
MaxEdits == 2       \* file-system changes in one behaviour
MaxIndex == 3       \* entries the vector index can hold in one behaviour
MaxNames == 2       \* length of the pdf_names argument
MaxRequests == 2    \* requests served at the same time
MaxPlan == 2        \* steps in a planner response
MaxCorpus == 4      \* documents of the corpus a request is run on
MaxHits == 10       \* entries of a search result given to the retrieve tool
MaxPages == 2       \* pages of the file the page loop is run on
MaxWords == 3       \* pieces of a chunk text searched for area measurements
MaxConversations == 1 \* conversations created through the hybrid storage
MaxMessages == 2    \* messages in one conversation
MaxLimit == 2       \* the limit given to get_conversation_history
MaxQuery == 3       \* pieces of a user query the jurisdiction hint is worked out for

\* ------------------------------------------------------ program constants
FallbackCount == 3  \* available_pdfs[:3]
SearchK == 12       \* search_kwargs["k"] of get_retriever
TopN == 8           \* all_docs[:8]
ExcerptLimit == 200 \* page_content[:200]

Docs == 1..MaxDocs
Contents == 1..MaxContent
Requests == 1..MaxRequests

NoFile == [content |-> 0, mtime |-> 0]
NoEntry == [size |-> 0, modified |-> 0, hash |-> 0]

VARIABLES
    files,          \* arch_pdfs: document -> [content, mtime], or NoFile
    edits,          \* number of file-system changes so far
    pdf_metadata,   \* self.pdf_metadata: document -> stats, or NoEntry
    metadata_file,  \* pdf_metadata.json, as _load_metadata would read it
    vectorstore,    \* the Chroma collection: a bag of chunks
    settled,        \* documents covered by a returned call and not written since
    last,           \* what the last call on the store did and returned
    req,            \* request -> where its ensure_pdfs_embedded call stands
    node,           \* the graph node that runs next, "END" or "error"
    visited,        \* the nodes entered so far, in order
    steps,          \* AgentState.steps
    pdf_names,      \* AgentState.pdf_names
    summary,        \* AgentState.summary: "", "retrieved", "error" or "answer"
    memory,         \* AgentState.memory: the roles of its entries
    user_query,     \* AgentState.user_query
    source_citations, \* AgentState.source_citations
    tool,           \* a call of retrieve_documents: the search result, all_docs
                    \* after the merge loop, all_docs and source_citations at
                    \* the end
    load,           \* a run of the page loop of load_pdfs_from_folder on one
                    \* file: the pages of the loader, the page_num of every
                    \* page and the chunks appended to documents
    scan,           \* the search for area measurements in one chunk text for
                    \* its citation: the text and citation["area_measurements"]
    storage,        \* the HybridConversationStorage: the caches and the stores
                    \* of its two backends, the messages its callers have
                    \* added, and what its last call returned
    gate,           \* one call of LLMGate.should_use_agent: what the model
                    \* call does, and what the gate returns
    hint            \* the jurisdiction hint rag_retriever_agent works out for
                    \* one user query

storeVars == <<files, edits, pdf_metadata, metadata_file, vectorstore, settled, last>>

flowVars == <<node, visited, steps, pdf_names, summary, memory, user_query,
              source_citations>>

callVars == <<tool, load, scan, storage, gate, hint>>

vars == <<storeVars, req, flowVars, callVars>>

\* ------------------------------------------------------- the document source
\* hashlib.md5(bytes).hexdigest(): distinct contents have distinct digests
Hash(c) == c

\* os.stat(path).st_size: contents 1 and 2 have the same length
Size(c) == (c + 1) \div 2

\* PyPDFLoader(...).load() raises for these contents
Corrupt(c) == c % 4 = 3

\* chunks the splitter yields per page: one one-chunk page for contents
\* 1 mod 4, one two-chunk page for 2 mod 4, no page for 0 mod 4
PagesOf(c) ==
    CASE c % 4 = 1 -> <<1>>
      [] c % 4 = 2 -> <<2>>
      [] OTHER -> <<>>

Exists(d) == files[d] # NoFile

\* _get_pdf_stats: size, st_mtime and hash of the file as it is now
GetPdfStats(d) ==
    [size |-> Size(files[d].content),
     modified |-> files[d].mtime,
     hash |-> Hash(files[d].content)]

\* one chunk with the metadata load_pdfs_from_folder attaches to it
Chunk(d, c, p, i) ==
    [source |-> d, page |-> p, paragraph |-> i,
     chunk_id |-> <<d, p, i>>, page_content |-> <<c, p, i>>]

RECURSIVE PageChunks(_, _, _, _)
PageChunks(d, c, p, n) ==
    IF n = 0 THEN <<>>
    ELSE Append(PageChunks(d, c, p, n - 1), Chunk(d, c, p, n))

Digits == {"0", "1", "2", "3", "4", "5", "6", "7", "8", "9"}

\* a page without the page_label metadata
NoLabel == <<"None">>

\* str.isdigit()
IsDigit(s) == s # <<>> /\ \A i \in 1..Len(s) : s[i] \in Digits

\* int(s) for a string of digits
RECURSIVE ToInt(_)
ToInt(s) ==
    IF s = <<>> THEN 0
    ELSE 10 * ToInt(SubSeq(s, 1, Len(s) - 1))
         + (CHOOSE v \in 0..9 : ToString(v) = s[Len(s)])

\* page_num of load_pdfs_from_folder: the label when it is there and made of
\* digits, else the page index plus one
PageNum(zero_based_page, page_label) ==
    IF page_label # NoLabel /\ page_label # <<>> /\ IsDigit(page_label)
    THEN ToInt(page_label)
    ELSE zero_based_page + 1

\* the loop over the pages of one file; a page is its label and the number
\* of chunks the splitter cuts it into
RECURSIVE PagesChunks(_, _, _)
PagesChunks(d, c, pdf_documents) ==
    IF pdf_documents = <<>> THEN <<>>
    ELSE LET doc_idx == Len(pdf_documents) - 1
             doc == pdf_documents[Len(pdf_documents)]
         IN  PagesChunks(d, c, SubSeq(pdf_documents, 1, doc_idx))
             \o PageChunks(d, c, PageNum(doc_idx, doc.page_label), doc.chunks)

\* the same for a file whose pages have no label, or the labels "1", "2", ...
\* that the loader gives the pages of a file without page labels
DocChunks(d, c, pages) ==
    PagesChunks(d, c, [k \in 1..Len(pages) |->
                          [page_label |-> NoLabel, chunks |-> pages[k]]])

\* the body of the loop of load_pdfs_from_folder for one name: a missing file
\* and a file the loader raises on contribute nothing and the loop continues
LoadPdf(d) ==
    IF ~Exists(d) THEN <<>>
    ELSE IF Corrupt(files[d].content) THEN <<>>
    ELSE DocChunks(d, files[d].content, PagesOf(files[d].content))

\* a variant in which a file the loader raises on ends the loop with nothing
LoadPdfsFromFolderAbort(names) ==
    LET RECURSIVE Load(_)
        Load(rest) == IF rest = <<>> THEN <<>>
                      ELSE LoadPdf(Head(rest)) \o Load(Tail(rest))
    IN  IF \E i \in 1..Len(names) :
               Exists(names[i]) /\ Corrupt(files[names[i]].content)
        THEN <<>> ELSE Load(names)

RECURSIVE LoadPdfsFromFolder(_)
LoadPdfsFromFolder(names) ==
    IF names = <<>> THEN <<>>
    ELSE LoadPdf(Head(names)) \o LoadPdfsFromFolder(Tail(names))

\* get_available_pdfs: the sorted list of the files that exist
RECURSIVE AvailableFrom(_)
AvailableFrom(d) ==
    IF d \notin DOMAIN files THEN <<>>
    ELSE (IF Exists(d) THEN <<d>> ELSE <<>>) \o AvailableFrom(d + 1)

GetAvailablePdfs == AvailableFrom(1)

\* ------------------------------------------------------- names and strings
\* A string is the sequence of its characters; "oe" and "OE" stand for the
\* letters o-umlaut and O-umlaut.

\* s.startswith(prefix)
StartsWith(s, prefix) ==
    Len(prefix) <= Len(s) /\ SubSeq(s, 1, Len(prefix)) = prefix

\* sub in s
Contains(s, sub) ==
    \E i \in 0..(Len(s) - Len(sub)) : SubSeq(s, i + 1, i + Len(sub)) = sub

\* s.split(sep) for a one-character separator
RECURSIVE Split(_, _)
Split(s, sep) ==
    IF \A i \in 1..Len(s) : s[i] # sep THEN <<s>>
    ELSE LET k == CHOOSE i \in 1..Len(s) :
                      s[i] = sep /\ \A j \in 1..(i - 1) : s[j] # sep
         IN  <<SubSeq(s, 1, k - 1)>> \o Split(SubSeq(s, k + 1, Len(s)), sep)

\* the relative paths of the documents, in the order of sorted(): three files
\* at the top of arch_pdfs, files in state folders, one of them without the
\* level prefix
PdfNames ==
    <<<<"1","_","A","T","_","O","O","E","_","G","E","_","a",".","p","d",
        "f">>,
      <<"3","_","A","T","_","W","_","O","I","B","_","b",".","p","d","f">>,
      <<"4","_","A","T","_","0","_","O","E","N","_","c",".","p","d","f">>,
      <<"B","/","W","i","e","n","/","2","_","A","T","_","W","_","V","E",
        "_","d",".","p","d","f">>,
      <<"B","/","W","i","e","n","/","x",".","p","d","f">>,
      <<"C","/","O","B","E","R","OE","S","T","E","R","R","E","I","C","H",
        "/","1","_","A","T","_","O","O","E","_","G","E","_","e",".","p",
        "d","f">>>>

\* the relative path of document d; the documents beyond the table are files
\* of the last folder
PdfName(d) == IF d <= Len(PdfNames) THEN PdfNames[d] ELSE PdfNames[Len(PdfNames)]

\* Path(pdf_name).parts and Path(pdf_name).name
PathParts(pdf_name) == Split(pdf_name, "/")
FileName(pdf_name) == PathParts(pdf_name)[Len(PathParts(pdf_name))]

OberOesterreich == <<"O", "B", "E", "R", "OE", "S", "T", "E", "R", "R", "E",
    "I", "C", "H">>
Bundesgesetze == <<"B", "u", "n", "d", "e", "s", "g", "e", "s", "e", "t",
    "z", "e">>

\* state_map of parse_document_metadata
StateMap(state) ==
    CASE state = <<"0">> -> "federal"
      [] state = <<"W">> -> "vienna"
      [] state = <<"O", "O", "E">> -> "upper_austria"
      [] OTHER -> "unknown"

\* the filename patterns of parse_document_metadata: digits, "AT", the state
\* code and at least two more fields, separated by "_"
MatchesPattern(filename) ==
    LET fields == Split(filename, "_")
    IN  /\ Len(fields) >= 5
        /\ fields[1] # <<>>
        /\ \A i \in 1..Len(fields[1]) : fields[1][i] \in Digits
        /\ fields[2] = <<"A", "T">>
        /\ fields[3] # <<>>

\* metadata["jurisdiction"] of parse_document_metadata: the state code of the
\* file name, then what the second path component and the first say
Jurisdiction(pdf_name) ==
    LET parts == PathParts(pdf_name)
        filename == FileName(pdf_name)
        by_name == IF MatchesPattern(filename)
                   THEN StateMap(Split(filename, "_")[3]) ELSE "unknown"
    IN  IF Len(parts) < 2 THEN by_name
        ELSE IF Contains(parts[2], <<"W", "i", "e", "n">>) THEN "vienna"
        ELSE IF Contains(parts[2], OberOesterreich) THEN "upper_austria"
        ELSE IF Contains(parts[1], Bundesgesetze) THEN "federal"
        ELSE by_name

\* get_document_priority, and the same expression in rag_retriever_agent
GetDocumentPriority(source) ==
    IF StartsWith(source, <<"1", "_">>) \/ StartsWith(source, <<"2", "_">>) THEN 1
    ELSE IF StartsWith(source, <<"3", "_">>) THEN 2
    ELSE IF StartsWith(source, <<"4", "_">>) THEN 3
    ELSE 4

\* ------------------------------------------------------------ the registry
\* a variant that also compares the modification time
NeedsProcessingMtime(meta, d) ==
    \/ meta[d] = NoEntry
    \/ meta[d].hash # GetPdfStats(d).hash
    \/ meta[d].size # GetPdfStats(d).size
    \/ meta[d].modified # GetPdfStats(d).modified

\* a variant that compares the size alone
NeedsProcessingSizeOnly(meta, d) ==
    \/ meta[d] = NoEntry
    \/ meta[d].size # GetPdfStats(d).size

\* the test of get_pdfs_to_process on one existing document
NeedsProcessing(meta, d) ==
    \/ meta[d] = NoEntry
    \/ meta[d].hash # GetPdfStats(d).hash
    \/ meta[d].size # GetPdfStats(d).size

GetPdfsToProcess(meta, names) ==
    SelectSeq(names, LAMBDA d : Exists(d) /\ NeedsProcessing(meta, d))

Range(s) == {s[i] : i \in 1..Len(s)}

RECURSIVE SeqToBag(_)
SeqToBag(s) ==
    IF s = <<>> THEN EmptyBag
    ELSE SetToBag({Head(s)}) (+) SeqToBag(Tail(s))

\* the loop of add_pdf_embeddings that records the stats of every name of
\* the batch whose file exists
UpdateMetadata(meta, names) ==
    [d \in DOMAIN files |->
        IF d \in Range(names) /\ Exists(d) THEN GetPdfStats(d) ELSE meta[d]]

EmptyMetadata == [d \in DOMAIN files |-> NoEntry]

\* _save_metadata: the file is rewritten; an IOError is swallowed and leaves
\* the old file ("kept") or a truncated one that loads as {} ("truncated")
SaveMetadata(meta, outcome) ==
    CASE outcome = "ok" -> meta
      [] outcome = "kept" -> metadata_file
      [] OTHER -> EmptyMetadata

SaveOutcomes == {"ok", "kept", "truncated"}

\* the names ensure_pdfs_embedded works on: all available ones for an empty
\* argument, then only those whose file exists
\* a variant that takes an empty list of names as it is
ExistingPdfsOfNames(names) == SelectSeq(names, Exists)

ExistingPdfs(names) ==
    SelectSeq(IF names = <<>> THEN GetAvailablePdfs ELSE names, Exists)

\* a variant that records the stats before the collection is written
AddPdfEmbeddingsCommitFirst(names, embedOk, saveOutcome) ==
    LET documents == LoadPdfsFromFolder(names)
        unchanged == [raised |-> FALSE, ret |-> 0, store |-> vectorstore,
                      meta |-> pdf_metadata, file |-> metadata_file]
        meta == UpdateMetadata(pdf_metadata, names)
    IN  IF documents = <<>> THEN unchanged
        ELSE IF ~embedOk
        THEN [unchanged EXCEPT !.raised = TRUE, !.meta = meta,
                               !.file = SaveMetadata(meta, saveOutcome)]
        ELSE [raised |-> FALSE, ret |-> Len(documents),
              store |-> vectorstore (+) SeqToBag(documents),
              meta |-> meta, file |-> SaveMetadata(meta, saveOutcome)]

\* add_pdf_embeddings(names) on a non-empty list: what it returns, whether it
\* raises, and the collection, the registry and the registry file it leaves.
\* embedOk says whether vectorstore.add_documents returns or raises.
AddPdfEmbeddings(names, embedOk, saveOutcome) ==
    LET documents == LoadPdfsFromFolder(names)
        unchanged == [raised |-> FALSE, ret |-> 0, store |-> vectorstore,
                      meta |-> pdf_metadata, file |-> metadata_file]
        meta == UpdateMetadata(pdf_metadata, names)
    IN  IF documents = <<>> THEN unchanged
        ELSE IF ~embedOk THEN [unchanged EXCEPT !.raised = TRUE]
        ELSE [raised |-> FALSE, ret |-> Len(documents),
              store |-> vectorstore (+) SeqToBag(documents),
              meta |-> meta, file |-> SaveMetadata(meta, saveOutcome)]

\* the pdf_names arguments tried: the lists without repetition, in ascending
\* order (a list and its permutations read and write the same state)
NamesArgs ==
    {s \in UNION {[1..n -> Docs] : n \in 0..MaxNames} :
        \A i \in 1..(Len(s) - 1) : s[i] < s[i + 1]}

\* add_documents is reached, and can raise, only with chunks to add
EmbedOutcomes(names) ==
    IF LoadPdfsFromFolder(GetPdfsToProcess(pdf_metadata, ExistingPdfs(names))) = <<>>
    THEN {TRUE} ELSE BOOLEAN

\* a request that has not called the store
NoCall == [pc |-> "idle", todo |-> <<>>, documents |-> <<>>]

Idle == [op |-> "none", repeat |-> FALSE, raised |-> FALSE, ret |-> FALSE]

\* no call of the tool yet on the search result docs
NotCalled(docs) ==
    [docs |-> docs, merged |-> <<>>, all_docs |-> <<>>, source_citations |-> <<>>,
     returned |-> FALSE]

\* the page loop has not run on the pages pdf_documents
NotLoaded(pdf_documents) ==
    [pdf_documents |-> pdf_documents, page_nums |-> <<>>, documents |-> <<>>,
     returned |-> FALSE]

\* the text page_content has not been searched
NotScanned(page_content) ==
    [page_content |-> page_content, area_measurements |-> <<>>, returned |-> FALSE]

\* what a call of the conversation storage returned
Returned(op, id, found, messages) ==
    [op |-> op, id |-> id, limit |-> 0, found |-> found, messages |-> messages,
     stored |-> <<>>]

\* HybridConversationStorage(mongodb_url) on an empty storage directory and
\* an empty database: json and mongo are the _conversations of the two
\* backends, files the *.json files, db the MongoDB collections, each a
\* function from conversation ids to message lists; uuids counts the ids
\* drawn; sent has, for every id create_conversation returned, the messages
\* add_message took for it
NewStorage(mongodb) ==
    [mongodb |-> mongodb, json |-> <<>>, files |-> <<>>, mongo |-> <<>>,
     db |-> <<>>, uuids |-> 0, sent |-> <<>>,
     result |-> Returned("none", 0, FALSE, <<>>)]

\* what llm.invoke does for the gate: it raises, or it returns a response
\* whose content is a string or not; the string is the text of the JSON value
\* of the given type, alone or inside a Markdown fence, or is no JSON text
\* (type "text"); an object has the values use_agent and reason, Absent for
\* a key it does not have
Absent == "absent"

NoResponse ==
    [raises |-> FALSE, is_str |-> TRUE, fenced |-> FALSE, type |-> "text",
     use_agent |-> Absent, reason |-> Absent]

\* the hint not yet worked out for the query
NoHint(query) == [user_query |-> query, jurisdiction_hint |-> "", returned |-> FALSE]

\* the gate before should_use_agent is called with that response to come
NotAsked(response) ==
    [response |-> response, returned |-> FALSE, raised |-> FALSE,
     use_agent |-> Absent, reason |-> Absent]

\* neither the tool nor the loader nor the search nor the storage nor the
\* gate has been called
NoCalls ==
    /\ tool = NotCalled(<<>>)
    /\ load = NotLoaded(<<>>)
    /\ scan = NotScanned(<<>>)
    /\ storage = NewStorage(FALSE)
    /\ gate = NotAsked(NoResponse)
    /\ hint = NoHint(<<>>)

\* a store just constructed on an empty persist directory, and a request
\* whose AgentState has its default fields, on the corpus given
InitOn(corpus) ==
    /\ files = corpus
    /\ edits = 0
    /\ pdf_metadata = EmptyMetadata
    /\ metadata_file = EmptyMetadata
    /\ vectorstore = EmptyBag
    /\ settled = {}
    /\ last = Idle
    /\ req = [p \in Requests |-> NoCall]
    /\ node = "meta_data_extractor"
    /\ visited = <<"meta_data_extractor">>
    /\ steps = <<>>
    /\ pdf_names = <<>>
    /\ summary = ""
    /\ memory = <<>>
    /\ source_citations = <<>>

Init == InitOn([d \in Docs |-> NoFile]) /\ user_query = <<>> /\ NoCalls

\* ---------------------------------------------------------- the environment
\* a file is written: new bytes, or the same bytes again (a touch); either
\* way its modification time becomes the time of the write
WriteFile(d, c) ==
    /\ edits < MaxEdits
    /\ files' = [files EXCEPT ![d] = [content |-> c, mtime |-> edits + 1]]
    /\ edits' = edits + 1
    /\ settled' = IF files[d].content = c THEN settled ELSE settled \ {d}
    /\ last' = [Idle EXCEPT !.op = "write"]
    /\ UNCHANGED <<pdf_metadata, metadata_file, vectorstore, req, flowVars, callVars>>

\* ------------------------------------------------------------ the store API
\* ensure_pdfs_embedded(names): what it returns, whether it raises, and the
\* collection, the registry and the registry file it leaves
EnsureResult(names, embedOk, saveOutcome) ==
    LET existing == ExistingPdfs(names)
        todo == GetPdfsToProcess(pdf_metadata, existing)
    IN  IF existing = <<>> \/ todo = <<>>
        THEN [raised |-> FALSE, ret |-> 0, store |-> vectorstore,
              meta |-> pdf_metadata, file |-> metadata_file]
        ELSE AddPdfEmbeddings(todo, embedOk, saveOutcome)

\* a call of ensure_pdfs_embedded(names) on the store
EnsureStore(names, embedOk, saveOutcome) ==
    LET existing == ExistingPdfs(names)
        r == EnsureResult(names, embedOk, saveOutcome)
    IN  /\ BagCardinality(r.store) <= MaxIndex
        /\ vectorstore' = r.store
        /\ pdf_metadata' = r.meta
        /\ metadata_file' = r.file
        /\ last' = [op |-> "ensure",
                    repeat |-> existing # <<>> /\ Range(existing) \subseteq settled,
                    raised |-> r.raised,
                    ret |-> ~r.raised /\ r.ret > 0]
        /\ settled' = IF r.raised THEN settled ELSE settled \cup Range(existing)
        /\ UNCHANGED <<files, edits>>

\* ensure_pdfs_embedded called from the command line or from a request
EnsurePdfsEmbedded(names, embedOk, saveOutcome) ==
    /\ EnsureStore(names, embedOk, saveOutcome)
    /\ UNCHANGED <<req, flowVars, callVars>>

\* a new process: PersistentVectorStore.__init__ reads pdf_metadata.json and
\* opens the persisted collection
Restart ==
    /\ pdf_metadata' = metadata_file
    /\ settled' = {}
    /\ last' = [Idle EXCEPT !.op = "restart"]
    /\ UNCHANGED <<files, edits, metadata_file, vectorstore, req, flowVars, callVars>>

EnsureCall ==
    \E names \in NamesArgs :
        \E embedOk \in EmbedOutcomes(names) :
            \E saveOutcome \in (IF embedOk THEN SaveOutcomes ELSE {"ok"}) :
                EnsurePdfsEmbedded(names, embedOk, saveOutcome)

\* one process working on the store while the corpus changes
Next ==
    \/ \E d \in Docs, c \in Contents : WriteFile(d, c)
    \/ EnsureCall

Spec == Init /\ [][Next]_vars

\* the same with process restarts
NextRestart ==
    \/ \E d \in Docs, c \in Contents : WriteFile(d, c)
    \/ EnsureCall
    \/ Restart

SpecRestart == Init /\ [][NextRestart]_vars

\* get_collection_stats: collection.count() and len(self.pdf_metadata)
GetCollectionStats ==
    [total_chunks |-> BagCardinality(vectorstore),
     embedded_pdfs |-> Cardinality({d \in DOMAIN pdf_metadata :
                                        pdf_metadata[d] # NoEntry})]

\* reset_vector_store: delete_collection returns or raises (deleteOk); after
\* it the registry is cleared and saved, with the outcomes of _save_metadata,
\* and the collection is opened again, empty.  The except branch prints and
\* returns, so nothing is raised.
ResetVectorStore(deleteOk, saveOutcome) ==
    /\ vectorstore' = IF deleteOk THEN EmptyBag ELSE vectorstore
    /\ pdf_metadata' = IF deleteOk THEN EmptyMetadata ELSE pdf_metadata
    /\ metadata_file' = IF deleteOk THEN SaveMetadata(EmptyMetadata, saveOutcome)
                        ELSE metadata_file
    /\ settled' = IF deleteOk THEN {} ELSE settled
    /\ last' = [Idle EXCEPT !.op = "reset"]
    /\ UNCHANGED <<files, edits, req, flowVars, callVars>>

\* the administration commands on the store while the corpus changes
NextReset ==
    \/ \E d \in Docs, c \in Contents : WriteFile(d, c)
    \/ EnsureCall
    \/ \E deleteOk \in BOOLEAN :
          \E saveOutcome \in (IF deleteOk THEN SaveOutcomes ELSE {"ok"}) :
              ResetVectorStore(deleteOk, saveOutcome)

SpecReset == Init /\ [][NextReset]_vars

\* the store on a corpus that is there from the start and does not change:
\* every document is missing or has one of the contents
BatchCorpora ==
    [Docs -> {NoFile} \cup {[content |-> c, mtime |-> 1] : c \in Contents}]

InitBatch ==
    /\ \E corpus \in BatchCorpora : InitOn(corpus)
    /\ user_query = <<>>
    /\ NoCalls

NextBatch == EnsureCall

SpecBatch == InitBatch /\ [][NextBatch]_vars

\* ------------------------------------------------- concurrent requests
\* The /chat handler is a plain def, which the server runs on a thread pool;
\* every request reaches the one store of get_vector_store() through
\* rag_retriever_agent, and nothing serialises the calls.  A call of
\* ensure_pdfs_embedded is taken in four steps.

\* ensure_pdfs_embedded up to the result of get_pdfs_to_process
ReqCheck(p, names) ==
    LET todo == GetPdfsToProcess(pdf_metadata, ExistingPdfs(names))
    IN  /\ req[p].pc = "idle"
        /\ req' = [req EXCEPT ![p] =
                IF todo = <<>> THEN [NoCall EXCEPT !.pc = "done"]
                ELSE [pc |-> "load", todo |-> todo, documents |-> <<>>]]
        /\ UNCHANGED <<storeVars, flowVars, callVars>>

\* add_pdf_embeddings: load_pdfs_from_folder chunks the batch
ReqLoad(p) ==
    LET documents == LoadPdfsFromFolder(req[p].todo)
    IN  /\ req[p].pc = "load"
        /\ req' = [req EXCEPT ![p] =
                IF documents = <<>> THEN [@ EXCEPT !.pc = "done"]
                ELSE [@ EXCEPT !.pc = "add", !.documents = documents]]
        /\ UNCHANGED <<storeVars, flowVars, callVars>>

\* add_pdf_embeddings: vectorstore.add_documents returns or raises
ReqAdd(p, embedOk) ==
    /\ req[p].pc = "add"
    /\ embedOk => BagCardinality(vectorstore) + Len(req[p].documents) <= MaxIndex
    /\ vectorstore' = IF embedOk THEN vectorstore (+) SeqToBag(req[p].documents)
                      ELSE vectorstore
    /\ req' = [req EXCEPT ![p].pc = IF embedOk THEN "commit" ELSE "done"]
    /\ UNCHANGED <<files, edits, pdf_metadata, metadata_file, settled, last, flowVars, callVars>>

\* add_pdf_embeddings: the stats are recorded and the registry file is saved
ReqCommit(p, saveOutcome) ==
    /\ req[p].pc = "commit"
    /\ pdf_metadata' = UpdateMetadata(pdf_metadata, req[p].todo)
    /\ metadata_file' = SaveMetadata(pdf_metadata', saveOutcome)
    /\ req' = [req EXCEPT ![p].pc = "done"]
    /\ UNCHANGED <<files, edits, vectorstore, settled, last, flowVars, callVars>>

NextConcurrent ==
    \/ \E d \in Docs, c \in Contents : WriteFile(d, c)
    \/ \E p \in Requests, names \in NamesArgs : ReqCheck(p, names)
    \/ \E p \in Requests : ReqLoad(p)
    \/ \E p \in Requests, embedOk \in BOOLEAN : ReqAdd(p, embedOk)
    \/ \E p \in Requests, saveOutcome \in SaveOutcomes : ReqCommit(p, saveOutcome)

SpecConcurrent == Init /\ [][NextConcurrent]_vars

\* ------------------------------------------------- an interrupted batch
\* The call of request p is stopped where it stands, by an exception raised
\* into it ("exception": the store object lives on) or with its process
\* ("kill": the next call is made on a store newly constructed on the same
\* persist directory).  The collection is persisted by Chroma as written.
InterruptKinds == {"exception", "kill"}

Interrupt(p, kind) ==
    /\ req[p].pc \in {"load", "add", "commit"}
    /\ req' = [req EXCEPT ![p] = NoCall]
    /\ pdf_metadata' = IF kind = "kill" THEN metadata_file ELSE pdf_metadata
    /\ settled' = IF kind = "kill" THEN {} ELSE settled
    /\ last' = [Idle EXCEPT !.op = "interrupt"]
    /\ UNCHANGED <<files, edits, metadata_file, vectorstore, flowVars, callVars>>

\* one process whose calls of ensure_pdfs_embedded can be interrupted and
\* made again
NextInterrupt ==
    \/ \E d \in Docs, c \in Contents : WriteFile(d, c)
    \/ \E names \in NamesArgs : ReqCheck(1, names)
    \/ ReqLoad(1)
    \/ \E embedOk \in BOOLEAN : ReqAdd(1, embedOk)
    \/ \E saveOutcome \in SaveOutcomes : ReqCommit(1, saveOutcome)
    \/ \E kind \in InterruptKinds : Interrupt(1, kind)

SpecInterrupt == Init /\ [][NextInterrupt]_vars

\* ------------------------------------------------------- the workflow graph
\* A step keyword is the sequence of its characters.
UpperCase == <<"A", "B", "C", "D", "E", "F", "G", "H", "I", "J", "K", "L", "M",
               "N", "O", "P", "Q", "R", "S", "T", "U", "V", "W", "X", "Y", "Z", "OE">>
LowerCase == <<"a", "b", "c", "d", "e", "f", "g", "h", "i", "j", "k", "l", "m",
               "n", "o", "p", "q", "r", "s", "t", "u", "v", "w", "x", "y", "z", "oe">>
Whitespace == {" ", "\t", "\n"}

\* str.lower()
Lower(s) ==
    [i \in 1..Len(s) |->
        IF \E k \in 1..Len(UpperCase) : UpperCase[k] = s[i]
        THEN LowerCase[CHOOSE k \in 1..Len(UpperCase) : UpperCase[k] = s[i]]
        ELSE s[i]]

\* str.strip()
RECURSIVE Strip(_)
Strip(s) ==
    IF s = <<>> THEN s
    ELSE IF Head(s) \in Whitespace THEN Strip(Tail(s))
    ELSE IF s[Len(s)] \in Whitespace THEN Strip(SubSeq(s, 1, Len(s) - 1))
    ELSE s

RetrievePdfs == <<"r", "e", "t", "r", "i", "e", "v", "e", "_", "p", "d", "f", "s">>
Summarize == <<"s", "u", "m", "m", "a", "r", "i", "z", "e">>

\* the step keywords a planner response is made of: the two the router knows,
\* "Summarize", " summarize\n", "Retrieve_pdfs", "answer" and ""
StepWords ==
    {RetrievePdfs, Summarize,
     <<"S">> \o Tail(Summarize),
     <<" ">> \o Summarize \o <<"\n">>,
     <<"R">> \o Tail(RetrievePdfs),
     <<"a", "n", "s", "w", "e", "r">>,
     <<>>}

Plans == UNION {[1..n -> StepWords] : n \in 0..MaxPlan}

\* a variant that takes the direct route when any step asks for a summary
RoutePlannerAnyStep(plan) ==
    IF plan = <<>> THEN "retrieve_pdfs"
    ELSE IF \E i \in 1..Len(plan) : Strip(Lower(plan[i])) = Summarize
         THEN "summarizer"
         ELSE "pdf_selector"

\* route_planner
RoutePlanner(plan) ==
    IF plan = <<>> THEN "retrieve_pdfs"
    ELSE LET first_step == Strip(Lower(plan[1]))
         IN  IF first_step = RetrievePdfs THEN "pdf_selector"
             ELSE IF first_step = Summarize THEN "summarizer"
             ELSE "pdf_selector"

\* the path map given to add_conditional_edges for the planner
PlannerEdges == [pdf_selector |-> "pdf_selector", summarizer |-> "summarizer"]

\* the node after the planner: the path map's entry for the value of
\* route_planner; a value that is no key of the map is a KeyError, which ends
\* graph.invoke
AfterPlanner(plan) ==
    IF RoutePlanner(plan) \in DOMAIN PlannerEdges
    THEN PlannerEdges[RoutePlanner(plan)]
    ELSE "error"

\* the run moves to node n; an exception enters no node
Goto(n) ==
    /\ node' = n
    /\ visited' = IF n = "error" THEN visited ELSE Append(visited, n)

\* meta_data_agent, then the edge to the planner
MetaDataAgent ==
    /\ node = "meta_data_extractor"
    /\ memory' = Append(memory, "meta_data_agent")
    /\ Goto("planner")
    /\ UNCHANGED <<storeVars, req, callVars, steps, pdf_names, summary, user_query,
                   source_citations>>

\* extract_json(content)[key] raises KeyError or TypeError for these kinds of
\* response: a JSON object without the key, and a text extract_json finds no
\* JSON object in
Unparseable == {"nokey", "nojson"}

\* what extract_json(response.content)["steps"] comes to: llm.invoke raises,
\* the lookup raises KeyError or TypeError, or there is a list of steps
PlannerResponses ==
    {[kind |-> k, steps |-> <<>>] : k \in {"raise"} \cup Unparseable}
        \cup {[kind |-> "steps", steps |-> plan] : plan \in Plans}

\* a variant whose fallback is the empty step list
PlannerAgentEmptyFallback(response) ==
    /\ node = "planner"
    /\ IF response.kind = "raise"
       THEN /\ Goto("error")
            /\ UNCHANGED <<steps, memory>>
       ELSE /\ steps' = response.steps
            /\ memory' = Append(memory, "planner_agent")
            /\ Goto(AfterPlanner(steps'))
    /\ UNCHANGED <<storeVars, req, callVars, pdf_names, summary, user_query, source_citations>>

\* planner_agent, then the conditional edge
PlannerAgent(response) ==
    /\ node = "planner"
    /\ IF response.kind = "raise"
       THEN /\ Goto("error")
            /\ UNCHANGED <<steps, memory>>
       ELSE /\ steps' = IF response.kind \in Unparseable THEN <<RetrievePdfs>>
                        ELSE response.steps
            /\ memory' = Append(memory, "planner_agent")
            /\ Goto(AfterPlanner(steps'))
    /\ UNCHANGED <<storeVars, req, callVars, pdf_names, summary, user_query, source_citations>>

\* a variant that falls back to every available document
FallbackPdfsAll == GetAvailablePdfs

\* the documents the selector falls back to: available_pdfs[:3]
FallbackPdfs ==
    SubSeq(GetAvailablePdfs, 1,
           IF Len(GetAvailablePdfs) < FallbackCount THEN Len(GetAvailablePdfs)
           ELSE FallbackCount)

\* what extract_json(response.content)["pdf_names"] comes to: llm.invoke
\* raises, the lookup raises KeyError or TypeError, or there is a list of names
SelectorResponses ==
    {[kind |-> k, names |-> <<>>] : k \in {"raise"} \cup Unparseable}
        \cup {[kind |-> "names", names |-> names] : names \in NamesArgs}

\* pdf_selector_agent, then the edge to the retriever
PdfSelectorAgent(response) ==
    /\ node = "pdf_selector"
    /\ IF response.kind = "raise"
       THEN /\ Goto("error")
            /\ UNCHANGED <<pdf_names, memory>>
       ELSE /\ pdf_names' = IF response.kind \in Unparseable THEN FallbackPdfs
                            ELSE response.names
            /\ memory' = Append(memory, "pdf_selector_agent")
            /\ Goto("rag_retriever")
    /\ UNCHANGED <<storeVars, req, callVars, steps, summary, user_query, source_citations>>

\* the keyword lists of rag_retriever_agent
UpperAustriaKeywords ==
    {<<"l", "i", "n", "z">>,
     <<"o", "b", "e", "r", "oe", "s", "t", "e", "r", "r", "e", "i", "c", "h">>,
     <<"u", "p", "p", "e", "r", " ", "a", "u", "s", "t", "r", "i", "a">>,
     <<"o", "oe">>, <<"o", "o">>}
ViennaKeywords ==
    {<<"w", "i", "e", "n">>, <<"v", "i", "e", "n", "n", "a">>}

\* a variant that looks for the keywords of Vienna first
JurisdictionHintViennaFirst(query) ==
    LET user_query_lower == Lower(query)
    IN  IF \E keyword \in ViennaKeywords : Contains(user_query_lower, keyword)
        THEN "vienna"
        ELSE IF \E keyword \in UpperAustriaKeywords : Contains(user_query_lower, keyword)
        THEN "upper_austria"
        ELSE "none"

\* the jurisdiction the prompt of rag_retriever_agent names for a query
JurisdictionHint(query) ==
    LET user_query_lower == Lower(query)
    IN  IF \E keyword \in UpperAustriaKeywords : Contains(user_query_lower, keyword)
        THEN "upper_austria"
        ELSE IF \E keyword \in ViennaKeywords : Contains(user_query_lower, keyword)
        THEN "vienna"
        ELSE "none"

\* the length of a chunk text
ContentLength(text) == 197 + text[1] + text[3]

\* page_content[:200] + "..." for a longer text, else the text: the text it
\* is cut from and the number of its characters
Excerpt(text) ==
    [of |-> text,
     length |-> IF ContentLength(text) > ExcerptLimit
                THEN ExcerptLimit + Len(<<".", ".", ".">>)
                ELSE ContentLength(text)]

\* retriever.invoke(query) of get_retriever(): up to k entries of the
\* collection, which ones and in which order being up to the embeddings
SearchResults(store) ==
    LET n == IF BagCardinality(store) < SearchK THEN BagCardinality(store)
             ELSE SearchK
    IN  {s \in [1..n -> BagToSet(store)] :
            \A ch \in BagToSet(store) :
                Cardinality({i \in 1..n : s[i] = ch}) <= CopiesIn(ch, store)}

\* the citation rag_retriever_agent builds for one search result
Citation(doc) ==
    [pdf_name |-> doc.source, page |-> doc.page, paragraph |-> doc.paragraph,
     chunk_id |-> doc.chunk_id,
     priority |-> GetDocumentPriority(PdfName(doc.source)),
     relevant_content |-> Excerpt(doc.page_content)]

\* the loop of rag_retriever_agent over search_docs: one citation for the
\* first result of every source_key (source, page, paragraph)
RECURSIVE CitationsFrom(_, _)
CitationsFrom(search_docs, unique_sources) ==
    IF search_docs = <<>> THEN <<>>
    ELSE LET doc == Head(search_docs)
             source_key == <<doc.source, doc.page, doc.paragraph>>
         IN  IF source_key \in unique_sources
             THEN CitationsFrom(Tail(search_docs), unique_sources)
             ELSE <<Citation(doc)>>
                  \o CitationsFrom(Tail(search_docs),
                                   unique_sources \cup {source_key})

\* a variant whose except branch appends no entry to state.memory
RagRetrieverAgentSilentError(embedOk, saveOutcome, agentOk, search_docs) ==
    /\ node = "rag_retriever"
    /\ EnsureStore(pdf_names, embedOk, saveOutcome)
    /\ LET failed == last'.raised \/ ~agentOk
       IN  /\ summary' = IF failed THEN "error" ELSE "retrieved"
           /\ source_citations' = IF failed THEN <<>>
                                  ELSE CitationsFrom(search_docs, {})
           /\ memory' = IF failed THEN memory
                        ELSE Append(memory, "rag_retriever_agent")
    /\ Goto("summarizer")
    /\ UNCHANGED <<req, callVars, steps, pdf_names, user_query>>

\* rag_retriever_agent, then the edge to the summarizer: the store call, the
\* agent run and the search for the citations (agentOk: they return;
\* search_docs: what the search returns), and the except branch for any of
\* them raising
RagRetrieverAgent(embedOk, saveOutcome, agentOk, search_docs) ==
    /\ node = "rag_retriever"
    /\ EnsureStore(pdf_names, embedOk, saveOutcome)
    /\ LET failed == last'.raised \/ ~agentOk
       IN  /\ summary' = IF failed THEN "error" ELSE "retrieved"
           /\ source_citations' = IF failed THEN <<>>
                                  ELSE CitationsFrom(search_docs, {})
    /\ memory' = Append(memory, "rag_retriever_agent")
    /\ Goto("summarizer")
    /\ UNCHANGED <<req, callVars, steps, pdf_names, user_query>>

\* a variant that has the whole corpus embedded before it summarizes
SummarizerAgentIndexing(llmOk) ==
    /\ node = "summarizer"
    /\ EnsureStore(<<>>, TRUE, "ok")
    /\ IF llmOk
       THEN /\ summary' = "answer"
            /\ memory' = Append(memory, "summarizer_agent")
            /\ Goto("END")
       ELSE /\ Goto("error")
            /\ UNCHANGED <<summary, memory>>
    /\ UNCHANGED <<req, callVars, steps, pdf_names, user_query, source_citations>>

\* summarizer_agent, then the edge to END
SummarizerAgent(llmOk) ==
    /\ node = "summarizer"
    /\ IF llmOk
       THEN /\ summary' = "answer"
            /\ memory' = Append(memory, "summarizer_agent")
            /\ Goto("END")
       ELSE /\ Goto("error")
            /\ UNCHANGED <<summary, memory>>
    /\ UNCHANGED <<storeVars, req, callVars, steps, pdf_names, user_query, source_citations>>

\* the corpora a request is run on: of MaxCorpus documents none exists, the
\* first MaxDocs exist, or all do; those up to MaxDocs are one-chunk
\* documents, the loader raises on the rest
Corpora ==
    {[d \in 1..MaxCorpus |->
        IF d > n THEN NoFile
        ELSE [content |-> IF d <= MaxDocs THEN 1 ELSE 3, mtime |-> 1]] :
            n \in {0, MaxDocs, MaxCorpus}}

\* the user queries: "Wien" and "Linz"
Queries == {<<"W", "i", "e", "n">>, <<"L", "i", "n", "z">>}

InitFlow ==
    /\ \E corpus \in Corpora : InitOn(corpus)
    /\ user_query \in Queries
    /\ NoCalls

\* graph.invoke(agent_state) for one request
NextFlow ==
    \/ MetaDataAgent
    \/ \E response \in PlannerResponses : PlannerAgent(response)
    \/ \E response \in SelectorResponses : PdfSelectorAgent(response)
    \/ \E embedOk \in EmbedOutcomes(pdf_names), saveOutcome \in SaveOutcomes,
          agentOk \in BOOLEAN :
            \E search_docs \in
                    (IF agentOk
                     THEN SearchResults(
                            EnsureResult(pdf_names, embedOk, saveOutcome).store)
                     ELSE {<<>>}) :
                RagRetrieverAgent(embedOk, saveOutcome, agentOk, search_docs)
    \/ \E llmOk \in BOOLEAN : SummarizerAgent(llmOk)

SpecFlow == InitFlow /\ [][NextFlow]_vars

\* ------------------------------------------------------ the retrieve tool
\* the search results the tool is run on: chunks of the six documents as
\* (document, content, page, paragraph), in the order of one search result;
\* rows 1 and 3 have the same text in different documents, rows 2 and 7 are
\* one chunk that is stored twice, rows 5 and 8 have the same priority and
\* length
PoolRows ==
    <<<<4, 1, 1, 1>>, <<2, 3, 1, 2>>, <<1, 1, 1, 1>>, <<3, 2, 1, 1>>,
      <<1, 2, 2, 2>>, <<2, 1, 2, 1>>, <<2, 3, 1, 2>>, <<1, 3, 2, 1>>,
      <<5, 2, 1, 2>>, <<3, 3, 3, 2>>, <<6, 1, 3, 1>>, <<1, 2, 3, 1>>>>

Pool == [k \in 1..Len(PoolRows) |->
            Chunk(PoolRows[k][1], PoolRows[k][2], PoolRows[k][3], PoolRows[k][4])]

\* the elements of s at the positions of the set idx, in ascending order
RECURSIVE Pick(_, _)
Pick(s, idx) ==
    IF idx = {} THEN <<>>
    ELSE LET k == CHOOSE i \in idx : \A j \in idx : i <= j
         IN  <<s[k]>> \o Pick(s, idx \ {k})

Reverse(s) == [i \in 1..Len(s) |-> s[Len(s) + 1 - i]]

\* what retriever.invoke returns to the tool: at most MaxHits entries of the
\* pool (and no more than k), as they stand in the pool or the other way round
HitLists ==
    LET picked == {Pick(Pool, idx) : idx \in
                      {x \in SUBSET (1..Len(Pool)) :
                          Cardinality(x) <= MaxHits /\ Cardinality(x) <= SearchK}}
    IN  picked \cup {Reverse(s) : s \in picked}

\* a variant of the merge loop that keeps every result
MergeDocsKeepAll(docs, all_docs, seen_content) == all_docs \o docs

\* the inner loop of retrieve_documents: a result is appended to all_docs
\* unless its page_content was seen
RECURSIVE MergeDocs(_, _, _)
MergeDocs(docs, all_docs, seen_content) ==
    IF docs = <<>> THEN all_docs
    ELSE IF Head(docs).page_content \in seen_content
         THEN MergeDocs(Tail(docs), all_docs, seen_content)
         ELSE MergeDocs(Tail(docs), Append(all_docs, Head(docs)),
                        seen_content \cup {Head(docs).page_content})

\* the outer loop over the results of the search queries
RECURSIVE MergeQueries(_, _)
MergeQueries(results, all_docs) ==
    IF results = <<>> THEN all_docs
    ELSE MergeQueries(Tail(results),
            MergeDocs(Head(results), all_docs,
                      {all_docs[i].page_content : i \in 1..Len(all_docs)}))

\* the sort key (get_document_priority(doc), -len(doc.page_content))
SortKey(doc) ==
    <<GetDocumentPriority(PdfName(doc.source)), 0 - ContentLength(doc.page_content)>>

\* a variant that compares the length before the priority
KeyLessLengthFirst(a, b) ==
    \/ SortKey(a)[2] < SortKey(b)[2]
    \/ SortKey(a)[2] = SortKey(b)[2] /\ SortKey(a)[1] < SortKey(b)[1]

\* the order of the key tuples
KeyLess(a, b) ==
    \/ SortKey(a)[1] < SortKey(b)[1]
    \/ SortKey(a)[1] = SortKey(b)[1] /\ SortKey(a)[2] < SortKey(b)[2]

\* list.sort(key = ...): stable, so results with equal keys stay in the order
\* in which they arrived
RECURSIVE SortDocs(_)
SortDocs(s) ==
    IF s = <<>> THEN <<>>
    ELSE LET rest == SortDocs(SubSeq(s, 1, Len(s) - 1))
             doc == s[Len(s)]
             n == Cardinality({i \in 1..Len(rest) : ~KeyLess(doc, rest[i])})
         IN  SubSeq(rest, 1, n) \o <<doc>> \o SubSeq(rest, n + 1, Len(rest))

\* a variant that keeps the last eight
TopDocsLast(s) ==
    IF Len(s) <= TopN THEN s ELSE SubSeq(s, Len(s) - TopN + 1, Len(s))

\* all_docs[:8]
TopDocs(s) == IF Len(s) <= TopN THEN s ELSE SubSeq(s, 1, TopN)

\* citation_info of retrieve_documents for one result
CitationInfo(doc) ==
    [pdf_name |-> doc.source, page |-> doc.page, paragraph |-> doc.paragraph,
     chunk_id |-> doc.chunk_id,
     priority |-> GetDocumentPriority(PdfName(doc.source)),
     relevant_content |-> Excerpt(doc.page_content)]

\* retrieve_documents(query): the one search of search_queries, the merge
\* loop, the sort, the cut and the loop that formats the results
RetrieveDocuments ==
    /\ ~tool.returned
    /\ LET merged == MergeQueries(<<tool.docs>>, <<>>)
           all_docs == TopDocs(SortDocs(merged))
       IN  tool' = [docs |-> tool.docs, merged |-> merged, all_docs |-> all_docs,
                    source_citations |->
                        [i \in 1..Len(all_docs) |-> CitationInfo(all_docs[i])],
                    returned |-> TRUE]
    /\ UNCHANGED <<storeVars, req, flowVars, load, scan, storage, gate, hint>>

InitRetrieve ==
    /\ InitOn([d \in Docs |-> NoFile])
    /\ user_query = <<>>
    /\ \E docs \in HitLists : tool = NotCalled(docs)
    /\ load = NotLoaded(<<>>)
    /\ scan = NotScanned(<<>>)
    /\ storage = NewStorage(FALSE)
    /\ gate = NotAsked(NoResponse)
    /\ hint = NoHint(<<>>)

NextRetrieve == RetrieveDocuments

SpecRetrieve == InitRetrieve /\ [][NextRetrieve]_vars

\* ---------------------------------------------------------- the page loop
\* the page_label values of the pages: none, "", "0", "1", "2", "10", "iv"
PageLabels ==
    {NoLabel, <<>>, <<"0">>, <<"1">>, <<"2">>, <<"1", "0">>, <<"i", "v">>}

\* what loader.load() returns for the file: up to MaxPages pages, each with
\* its label and the number of chunks the splitter cuts it into
PdfDocuments ==
    UNION {[1..n -> [page_label : PageLabels, chunks : 0..2]] : n \in 0..MaxPages}

\* the loop of load_pdfs_from_folder over the pages of the first document
LoadPages ==
    /\ ~load.returned
    /\ load' = [pdf_documents |-> load.pdf_documents,
                page_nums |-> [k \in 1..Len(load.pdf_documents) |->
                                  PageNum(k - 1, load.pdf_documents[k].page_label)],
                documents |-> PagesChunks(1, 1, load.pdf_documents),
                returned |-> TRUE]
    /\ UNCHANGED <<storeVars, req, flowVars, tool, scan, storage, gate, hint>>

InitPages ==
    /\ InitOn([d \in Docs |-> NoFile])
    /\ user_query = <<>>
    /\ tool = NotCalled(<<>>)
    /\ \E pdf_documents \in PdfDocuments : load = NotLoaded(pdf_documents)
    /\ scan = NotScanned(<<>>)
    /\ storage = NewStorage(FALSE)
    /\ gate = NotAsked(NoResponse)
    /\ hint = NoHint(<<>>)

NextPages == LoadPages

SpecPages == InitPages /\ [][NextPages]_vars

\* ------------------------------------------------- area measurements
\* re.findall(r'\d+(?:\.\d+)?\s*(?:m^2|qm|Quadratmeter|square\s*meter)',
\* content, re.IGNORECASE), where "^2" stands for the superscript two.

\* the unit alternatives of the pattern, in lower case
UnitM2 == <<"m", "^2">>
UnitQM == <<"q", "m">>
UnitQuadratmeter == <<"q", "u", "a", "d", "r", "a", "t", "m", "e", "t", "e", "r">>
WordSquare == <<"s", "q", "u", "a", "r", "e">>
WordMeter == <<"m", "e", "t", "e", "r">>

\* s[i..j-1] equals the lower-case text lit when case is ignored
MatchLiteral(s, i, lit) ==
    /\ i + Len(lit) - 1 <= Len(s)
    /\ Lower(SubSeq(s, i, i + Len(lit) - 1)) = lit

\* where \d+ can end when it starts at i, where (?:\.\d+)? can end when it
\* starts at a, where \s* can end when it starts at b: the position after
\* the last character taken
IntEnds(s, i) ==
    {a \in (i + 1)..(Len(s) + 1) : \A k \in i..(a - 1) : s[k] \in Digits}
FracEnds(s, a) ==
    {a} \cup {b \in (a + 2)..(Len(s) + 1) :
                 s[a] = "." /\ \A k \in (a + 1)..(b - 1) : s[k] \in Digits}
SpaceEnds(s, b) ==
    {c \in b..(Len(s) + 1) : \A k \in b..(c - 1) : s[k] \in Whitespace}

\* where the unit alternatives can end when they start at c
UnitEnds(s, c) ==
    (IF MatchLiteral(s, c, UnitM2) THEN {c + Len(UnitM2)} ELSE {})
        \cup (IF MatchLiteral(s, c, UnitQM) THEN {c + Len(UnitQM)} ELSE {})
        \cup (IF MatchLiteral(s, c, UnitQuadratmeter)
              THEN {c + Len(UnitQuadratmeter)} ELSE {})
        \cup (IF MatchLiteral(s, c, WordSquare)
              THEN {k + Len(WordMeter) :
                       k \in {k \in SpaceEnds(s, c + Len(WordSquare)) :
                                  MatchLiteral(s, k, WordMeter)}}
              ELSE {})

\* the ways the pattern matches at i: the ends of its number, fraction and
\* whitespace parts and of the match
Parses(s, i) ==
    UNION {UNION {UNION {{<<a, b, c, e>> : e \in UnitEnds(s, c)} :
                            c \in SpaceEnds(s, b)} :
                     b \in FracEnds(s, a)} :
              a \in IntEnds(s, i)}

\* the order in which the matcher tries them: the longest number first, then
\* the longest fraction before none, then the longest whitespace
Preferred(p, q) ==
    \/ p[1] > q[1]
    \/ p[1] = q[1] /\ p[2] > q[2]
    \/ p[1] = q[1] /\ p[2] = q[2] /\ p[3] > q[3]
    \/ p[1] = q[1] /\ p[2] = q[2] /\ p[3] = q[3] /\ p[4] >= q[4]

\* the position after the match at i, or 0 when the pattern does not match
MatchEnd(s, i) ==
    IF Parses(s, i) = {} THEN 0
    ELSE (CHOOSE p \in Parses(s, i) : \A q \in Parses(s, i) : Preferred(p, q))[4]

\* a variant that returns the first match only
FindAllFirstOnly(s, i) ==
    IF \A k \in i..Len(s) : MatchEnd(s, k) = 0 THEN <<>>
    ELSE LET k == CHOOSE k \in i..Len(s) :
                      MatchEnd(s, k) # 0 /\ \A j \in i..(k - 1) : MatchEnd(s, j) = 0
         IN  <<SubSeq(s, k, MatchEnd(s, k) - 1)>>

\* re.findall from position i on: the matches from left to right, each search
\* starting where the last match ended
RECURSIVE FindAll(_, _)
FindAll(s, i) ==
    IF i > Len(s) THEN <<>>
    ELSE IF MatchEnd(s, i) # 0
         THEN <<SubSeq(s, i, MatchEnd(s, i) - 1)>> \o FindAll(s, MatchEnd(s, i))
         ELSE FindAll(s, i + 1)

\* the pieces the chunk texts are made of
Words ==
    {<<"1", "0", "0">>,
     <<"1", ".", "5">>,
     <<".">>,
     <<" ">>,
     <<"m", "^2">>,
     <<"Q", "M">>,
     <<"Q", "u", "a", "d", "r", "a", "t", "m", "e", "t", "e", "r">>,
     <<"s", "q", "u", "a", "r", "e">>,
     <<" ", "M", "e", "t", "e", "r">>,
     <<"x">>}

RECURSIVE Concat(_)
Concat(words) == IF words = <<>> THEN <<>> ELSE Head(words) \o Concat(Tail(words))

BaseArea == <<"B", "a", "s", "e", " ", "a", "r", "e", "a", " ", "1", "0",
    "0", " ", "m", "^2", " ", "+", " ", "1", "0", " ", "m", "^2", " ", "p",
    "e", "r", " ", "a", "p", "a", "r", "t", "m", "e", "n", "t">>

\* the chunk texts searched: the text of the example and the texts of up to
\* MaxWords pieces
PageContents ==
    {BaseArea} \cup {Concat(words) : words \in UNION {[1..n -> Words] : n \in 0..MaxWords}}

\* the search of rag_retriever_agent, and of retrieve_documents, in the text
\* of one chunk; the key area_measurements is set when the list is not empty
FindAreaMentions ==
    /\ ~scan.returned
    /\ scan' = [page_content |-> scan.page_content,
                area_measurements |-> FindAll(scan.page_content, 1),
                returned |-> TRUE]
    /\ UNCHANGED <<storeVars, req, flowVars, tool, load, storage, gate, hint>>

InitArea ==
    /\ InitOn([d \in Docs |-> NoFile])
    /\ user_query = <<>>
    /\ tool = NotCalled(<<>>)
    /\ load = NotLoaded(<<>>)
    /\ \E page_content \in PageContents : scan = NotScanned(page_content)
    /\ storage = NewStorage(FALSE)
    /\ gate = NotAsked(NoResponse)
    /\ hint = NoHint(<<>>)

NextArea == FindAreaMentions

SpecArea == InitArea /\ [][NextArea]_vars

\* ------------------------------------------------ the jurisdiction hint
\* the pieces user queries are made of
QueryWords ==
    {<<"W", "i", "e", "n">>, <<"V", "I", "E", "N", "N", "A">>,
     <<"L", "i", "n", "z">>, <<"O">>, <<"OE">>, <<"o">>,
     <<"u", "p", "p", "e", "r">>, <<"a", "u", "s", "t", "r", "i", "a">>,
     <<"O", "b", "e", "r", "oe", "s", "t", "e", "r", "r", "e", "i", "c", "h">>,
     <<" ">>, <<"G", "r", "a", "z">>}

HintQueries ==
    {Concat(words) : words \in UNION {[1..n -> QueryWords] : n \in 0..MaxQuery}}

\* the lines of rag_retriever_agent that set jurisdiction_hint
SetJurisdictionHint ==
    /\ ~hint.returned
    /\ hint' = [hint EXCEPT !.jurisdiction_hint = JurisdictionHint(hint.user_query),
                            !.returned = TRUE]
    /\ UNCHANGED <<storeVars, req, flowVars, tool, load, scan, storage, gate>>

InitHint ==
    /\ InitOn([d \in Docs |-> NoFile])
    /\ user_query = <<>>
    /\ tool = NotCalled(<<>>)
    /\ load = NotLoaded(<<>>)
    /\ scan = NotScanned(<<>>)
    /\ storage = NewStorage(FALSE)
    /\ gate = NotAsked(NoResponse)
    /\ \E query \in HintQueries : hint = NoHint(query)

SpecHint == InitHint /\ [][SetJurisdictionHint]_vars

\* ------------------------------------------------------------ the gate
\* the JSON values a response gives to a key
JsonValues == {"true", "false", "null", "0", "1", "\"false\"", "\"no\""}

JsonTypes == {"object", "array", "string", "number", "true", "false", "null", "text"}

GateResponses ==
    [raises : BOOLEAN, is_str : BOOLEAN, fenced : BOOLEAN, type : JsonTypes,
     use_agent : JsonValues \cup {Absent}, reason : {Absent, "\"r\"", "null"}]

\* the gate's answer
Decision(use_agent, reason) ==
    [raised |-> FALSE, use_agent |-> use_agent, reason |-> reason]

\* a variant without the outer except clause
ShouldUseAgentInnerTry(response) ==
    IF response.raises \/ ~response.is_str
    THEN [raised |-> TRUE, use_agent |-> Absent, reason |-> Absent]
    ELSE IF response.fenced \/ response.type = "text"
    THEN Decision("true", "Failed to parse gate response")
    ELSE IF response.type # "object"
    THEN [raised |-> TRUE, use_agent |-> Absent, reason |-> Absent]
    ELSE Decision(IF response.use_agent = Absent THEN "true"
                  ELSE response.use_agent,
                  IF response.reason = Absent THEN "Default to agent workflow"
                  ELSE response.reason)

\* should_use_agent: llm.invoke raising, response.content.strip() on a
\* content that is no string and result.get on a value that is no dict end
\* in the outer except clause; json.loads on a text that is not JSON ends in
\* the inner one; else the value of "use_agent" is returned as it is, and
\* True when the key is not there
ShouldUseAgent(response) ==
    IF response.raises \/ ~response.is_str
    THEN Decision("true", "Gate error")
    ELSE IF response.fenced \/ response.type = "text"
    THEN Decision("true", "Failed to parse gate response")
    ELSE IF response.type # "object"
    THEN Decision("true", "Gate error")
    ELSE Decision(IF response.use_agent = Absent THEN "true"
                  ELSE response.use_agent,
                  IF response.reason = Absent THEN "Default to agent workflow"
                  ELSE response.reason)

AskGate ==
    /\ ~gate.returned
    /\ gate' = [gate EXCEPT
                  !.returned = TRUE,
                  !.raised = ShouldUseAgent(gate.response).raised,
                  !.use_agent = ShouldUseAgent(gate.response).use_agent,
                  !.reason = ShouldUseAgent(gate.response).reason]
    /\ UNCHANGED <<storeVars, req, flowVars, tool, load, scan, storage, hint>>

InitGate ==
    /\ InitOn([d \in Docs |-> NoFile])
    /\ user_query = <<>>
    /\ tool = NotCalled(<<>>)
    /\ load = NotLoaded(<<>>)
    /\ scan = NotScanned(<<>>)
    /\ storage = NewStorage(FALSE)
    /\ \E response \in GateResponses : gate = NotAsked(response)
    /\ hint = NoHint(<<>>)

NextGate == AskGate

SpecGate == InitGate /\ [][NextGate]_vars

\* ------------------------------------------------ conversation storage
\* A conversation is the list of its messages; a message is its content and
\* the timestamp its sender gave it.  The writes of the JSON files and of the
\* MongoDB collections succeed.

\* f with the value v at x, x added to its domain when it is not there
Put(f, x, v) == [y \in DOMAIN f \cup {x} |-> IF y = x THEN v ELSE f[y]]

\* the messages a caller adds
ConversationMessages == [content : {1}, timestamp : 1..MaxMessages]

\* the conversation ids a caller names: those drawn so far and the next one
KnownIds == 1..(storage.uuids + 1)

\* create_conversation: ConversationStorage.create_conversation draws an id,
\* and MongoDBStorage.create_conversation, when there is one, draws an id of
\* its own and writes its JSON file into the same directory; the id of the
\* JSON backend is returned
Created(s) ==
    LET json_id == s.uuids + 1
        mongo_id == s.uuids + 2
    IN  IF s.mongodb
        THEN [s EXCEPT
                !.uuids = mongo_id,
                !.json = Put(@, json_id, <<>>),
                !.files = Put(Put(@, json_id, <<>>), mongo_id, <<>>),
                !.mongo = Put(@, mongo_id, <<>>),
                !.db = Put(@, mongo_id, <<>>),
                !.sent = Put(@, json_id, <<>>),
                !.result = Returned("create", json_id, TRUE, <<>>)]
        ELSE [s EXCEPT
                !.uuids = json_id,
                !.json = Put(@, json_id, <<>>),
                !.files = Put(@, json_id, <<>>),
                !.sent = Put(@, json_id, <<>>),
                !.result = Returned("create", json_id, TRUE, <<>>)]

CreateConversation ==
    /\ Cardinality(DOMAIN storage.sent) < MaxConversations
    /\ storage' = Created(storage)
    /\ UNCHANGED <<storeVars, req, flowVars, tool, load, scan, gate, hint>>

\* add_message: the JSON backend appends and saves its file when it has the
\* conversation; then the MongoDB backend, when it has the conversation,
\* appends to its own copy and saves it to the collections and to the same
\* file; the result of the JSON backend is returned
Added(s, id, message) ==
    LET in_json == id \in DOMAIN s.json
        in_mongo == s.mongodb /\ id \in DOMAIN s.mongo
        json_messages == Append(s.json[id], message)
        mongo_messages == Append(s.mongo[id], message)
    IN  [s EXCEPT
           !.json = IF in_json THEN Put(@, id, json_messages) ELSE @,
           !.mongo = IF in_mongo THEN Put(@, id, mongo_messages) ELSE @,
           !.db = IF in_mongo THEN Put(@, id, mongo_messages) ELSE @,
           !.files = IF in_mongo THEN Put(@, id, mongo_messages)
                     ELSE IF in_json THEN Put(@, id, json_messages)
                     ELSE @,
           !.sent = IF in_json /\ id \in DOMAIN s.sent
                    THEN Put(@, id, Append(@[id], message)) ELSE @,
           !.result = Returned("add", id, in_json, <<>>)]

\* the conversation has room for n more messages in both backends
HasRoom(id, n) ==
    /\ id \in DOMAIN storage.json => Len(storage.json[id]) + n <= MaxMessages
    /\ storage.mongodb /\ id \in DOMAIN storage.mongo =>
           Len(storage.mongo[id]) + n <= MaxMessages

AddMessage(id, message) ==
    /\ HasRoom(id, 1)
    /\ storage' = Added(storage, id, message)
    /\ UNCHANGED <<storeVars, req, flowVars, tool, load, scan, gate, hint>>

\* get_conversation: the conversation of the MongoDB backend when it has
\* one, else that of the JSON backend, else None
GetConversation(id) ==
    /\ storage' =
          [storage EXCEPT !.result =
              IF storage.mongodb /\ id \in DOMAIN storage.mongo
              THEN Returned("get", id, TRUE, storage.mongo[id])
              ELSE IF id \in DOMAIN storage.json
              THEN Returned("get", id, TRUE, storage.json[id])
              ELSE Returned("get", id, FALSE, <<>>)]
    /\ UNCHANGED <<storeVars, req, flowVars, tool, load, scan, gate, hint>>

\* s[start:] of Python for start <= 0: from the -start'th element from the
\* end when start < 0, and the whole list when start = 0
SliceFrom(s, start) ==
    IF start < 0
    THEN SubSeq(s, (IF Len(s) + start > 0 THEN Len(s) + start ELSE 0) + 1, Len(s))
    ELSE s

\* conversation.messages[-limit:] if len(conversation.messages) > limit else
\* conversation.messages
RecentMessages(messages, limit) ==
    IF Len(messages) > limit THEN SliceFrom(messages, 0 - limit) ELSE messages

\* get_conversation_history of one backend: [] without the conversation
BackendHistory(conversations, id, limit) ==
    IF id \in DOMAIN conversations THEN RecentMessages(conversations[id], limit)
    ELSE <<>>

\* get_conversation_history: the history of the MongoDB backend when it is
\* not empty, else that of the JSON backend
HybridHistory(id, limit) ==
    IF storage.mongodb /\ BackendHistory(storage.mongo, id, limit) # <<>>
    THEN BackendHistory(storage.mongo, id, limit)
    ELSE BackendHistory(storage.json, id, limit)

GetConversationHistory(id, limit) ==
    /\ storage' = [storage EXCEPT !.result =
                      [Returned("history", id, TRUE, HybridHistory(id, limit))
                          EXCEPT !.limit = limit]]
    /\ UNCHANGED <<storeVars, req, flowVars, tool, load, scan, gate, hint>>

\* sync_from_json_to_mongodb: every JSON file is saved to the collections;
\* the cache of the MongoDB backend is not touched
SyncFromJsonToMongodb ==
    /\ storage.mongodb
    /\ storage' =
          [storage EXCEPT
             !.db = [id \in DOMAIN storage.db \cup DOMAIN storage.files |->
                        IF id \in DOMAIN storage.files THEN storage.files[id]
                        ELSE storage.db[id]],
             !.result = Returned("sync", 0, TRUE, <<>>)]
    /\ UNCHANGED <<storeVars, req, flowVars, tool, load, scan, gate, hint>>

\* find({...}).sort('timestamp', 1): messages with equal timestamps in the
\* order in which they were inserted
RECURSIVE SortByTimestamp(_)
SortByTimestamp(s) ==
    IF s = <<>> THEN <<>>
    ELSE LET rest == SortByTimestamp(SubSeq(s, 1, Len(s) - 1))
             message == s[Len(s)]
             n == Cardinality({i \in 1..Len(rest) :
                                  rest[i].timestamp <= message.timestamp})
         IN  SubSeq(rest, 1, n) \o <<message>> \o SubSeq(rest, n + 1, Len(rest))

\* a new process: ConversationStorage loads the JSON files,
\* MongoDBStorage loads the collections
RestartStorage ==
    /\ storage' =
          [storage EXCEPT
             !.json = storage.files,
             !.mongo = IF storage.mongodb
                       THEN [id \in DOMAIN storage.db |->
                                SortByTimestamp(storage.db[id])]
                       ELSE @,
             !.result = Returned("restart", 0, TRUE, <<>>)]
    /\ UNCHANGED <<storeVars, req, flowVars, tool, load, scan, gate, hint>>

\* POST /chat with the conversation id of the request (0 for none), served
\* at the time now: the history is read when an id was given, a conversation
\* is created when none was, the user's message is added, and then the
\* assistant's message, with the summary of graph.invoke or with the simple
\* response, unless graph.invoke raises.  The results of add_message are not
\* looked at.  The user's message has the content 1, the assistant's 2.
Chat(conversation_id, use_agent, raised, now) ==
    LET is_follow_up == conversation_id # 0
        conversation_history ==
            IF is_follow_up THEN HybridHistory(conversation_id, 5) ELSE <<>>
        opened == IF is_follow_up THEN storage ELSE Created(storage)
        id == IF is_follow_up THEN conversation_id ELSE opened.result.id
        user_message == [content |-> 1, timestamp |-> now]
        conversation_message == [content |-> 2, timestamp |-> now]
        asked == Added(opened, id, user_message)
        answered == Added(asked, id, conversation_message)
    IN  /\ is_follow_up \/ Cardinality(DOMAIN storage.sent) < MaxConversations
        /\ is_follow_up => HasRoom(conversation_id, 0)
        /\ raised => use_agent
        /\ storage' =
              IF raised
              THEN [asked EXCEPT !.result = Returned("chat", id, FALSE, <<>>)]
              ELSE [answered EXCEPT !.result =
                      [Returned("chat", id, TRUE, conversation_history)
                          EXCEPT !.stored = <<user_message, conversation_message>>]]
        /\ UNCHANGED <<storeVars, req, flowVars, tool, load, scan, gate, hint>>

NextChat ==
    \/ \E conversation_id \in {0} \cup KnownIds, use_agent, raised \in BOOLEAN,
          now \in 1..MaxMessages :
           Chat(conversation_id, use_agent, raised, now)
    \/ RestartStorage

InitStorage ==
    /\ InitOn([d \in Docs |-> NoFile])
    /\ user_query = <<>>
    /\ tool = NotCalled(<<>>)
    /\ load = NotLoaded(<<>>)
    /\ scan = NotScanned(<<>>)
    /\ \E mongodb \in BOOLEAN : storage = NewStorage(mongodb)
    /\ gate = NotAsked(NoResponse)
    /\ hint = NoHint(<<>>)

NextStorage ==
    \/ CreateConversation
    \/ \E id \in KnownIds, message \in ConversationMessages : AddMessage(id, message)
    \/ \E id \in KnownIds : GetConversation(id)
    \/ \E id \in KnownIds, limit \in 0..MaxLimit : GetConversationHistory(id, limit)
    \/ SyncFromJsonToMongodb
    \/ RestartStorage

SpecStorage == InitStorage /\ [][NextStorage]_vars

SpecChat == InitStorage /\ [][NextChat]_vars

\* ------------------------------------------------------------- properties
\* the content whose digest a registry entry holds
ContentOf(entry) == CHOOSE c \in Contents : Hash(c) = entry.hash

\* the chunks the chunker yields for document d with content c
ChunksOf(d, c) == IF Corrupt(c) THEN <<>> ELSE DocChunks(d, c, PagesOf(c))

Stored == BagToSet(vectorstore)

\* C1 (idempotent indexing): a call of ensure_pdfs_embedded all of whose
\* documents were covered by an earlier call that returned, and whose bytes
\* were not changed since, leaves the collection, pdf_metadata and
\* pdf_metadata.json as they are and returns False.
C1_IdempotentIndexing ==
    [][(last'.op = "ensure" /\ last'.repeat) =>
            /\ vectorstore' = vectorstore
            /\ pdf_metadata' = pdf_metadata
            /\ metadata_file' = metadata_file
            /\ ~last'.raised
            /\ ~last'.ret]_vars

\* a second call on an indexed, unchanged document has returned
C1_Witness ==
    /\ last.op = "ensure"
    /\ last.repeat
    /\ \E d \in settled :
          /\ pdf_metadata[d] # NoEntry
          /\ \E ch \in Stored : ch.source = d

\* C2 (registry hit): every document with a registry entry is indexed: the
\* chunker yields chunks for the recorded content and all of them are in the
\* collection.
C2_RegistryHitImpliesIndexed ==
    \A d \in Docs :
        pdf_metadata[d] # NoEntry =>
            LET chunks == ChunksOf(d, ContentOf(pdf_metadata[d]))
            IN  /\ chunks # <<>>
                /\ \A i \in 1..Len(chunks) : BagIn(chunks[i], vectorstore)

\* C3 (write after index): a call in which add_documents raises changes
\* neither pdf_metadata nor pdf_metadata.json, and a call that changes either
\* has written the collection and did not raise.
C3_WriteAfterIndex ==
    [][last'.op = "ensure" =>
            /\ last'.raised =>
                  pdf_metadata' = pdf_metadata /\ metadata_file' = metadata_file
            /\ (pdf_metadata' # pdf_metadata \/ metadata_file' # metadata_file) =>
                  /\ ~last'.raised
                  /\ BagCardinality(vectorstore') > BagCardinality(vectorstore)]_vars

\* add_documents has raised in a call that had chunks to write
C3_Witness == last.op = "ensure" /\ last.raised

\* C4 (re-index replaces): after a call that returned, every stored chunk of a
\* registered document comes from the content the registry records for it.
C4_ReindexReplaces ==
    (last.op = "ensure" /\ ~last.raised) =>
        \A ch \in Stored :
            pdf_metadata[ch.source] # NoEntry =>
                ch.page_content[1] = ContentOf(pdf_metadata[ch.source])

\* C5 (no duplicate chunk): no two entries of the collection have the same
\* chunk_id.
C5_NoDuplicateChunkId ==
    \A a \in Stored :
        /\ CopiesIn(a, vectorstore) = 1
        /\ \A b \in Stored : a.chunk_id = b.chunk_id => a = b

\* the documents a request is chunking, embedding or committing
InFlight(p) ==
    IF req[p].pc \in {"load", "add", "commit"} THEN Range(req[p].todo) ELSE {}

\* C6 (single writer): no document is being chunked, embedded or committed
\* by two requests at once, and so no chunk is written once per request.
C6_SingleWriterPerDocument ==
    /\ \A p, q \in Requests : p # q => InFlight(p) \cap InFlight(q) = {}
    /\ (\A p \in Requests : req[p].pc = "done") =>
            \A ch \in Stored : CopiesIn(ch, vectorstore) = 1

\* C7 (needsReindex): get_pdfs_to_process selects an existing document
\* exactly when it has no registry entry or the recorded size or digest is
\* not that of the file; the modification time plays no part.
C7_NeedsReindex ==
    \A d \in Docs :
        Exists(d) =>
            (d \in Range(GetPdfsToProcess(pdf_metadata, <<d>>))
                <=> \/ pdf_metadata[d] = NoEntry
                    \/ pdf_metadata[d].size # Size(files[d].content)
                    \/ pdf_metadata[d].hash # Hash(files[d].content))

\* a registered file was touched: same bytes, later mtime, and not selected
C7_Witness ==
    \E d \in Docs :
        /\ Exists(d)
        /\ pdf_metadata[d] # NoEntry
        /\ pdf_metadata[d].modified # files[d].mtime
        /\ pdf_metadata[d].hash = Hash(files[d].content)
        /\ GetPdfsToProcess(pdf_metadata, <<d>>) = <<>>
\* the first three nodes of a run whose planner returned
Routed == Len(visited) >= 3 /\ steps # <<>>

\* C8 (routing on a non-empty plan): the node after the planner depends on
\* the first step alone: the summarizer when that step, lower-cased and
\* stripped of surrounding whitespace, is "summarize", the pdf_selector for
\* every other first step, "retrieve_pdfs" among them.
C8_RoutingReadsFirstStep ==
    Routed =>
        visited[3] = IF Strip(Lower(steps[1])) = Summarize
                     THEN "summarizer" ELSE "pdf_selector"

\* a plan whose first step is not "summarize" as written and whose second
\* step is "summarize" has been routed
C8_Witness ==
    /\ Routed
    /\ Len(steps) >= 2
    /\ steps[1] # Summarize
    /\ steps[2] = Summarize
    /\ visited[3] = "pdf_selector"

\* C8 as stated: the summarizer for the first step "summarize" itself, the
\* pdf_selector for any other first step.
C8_AsStated ==
    Routed =>
        visited[3] = IF steps[1] = Summarize THEN "summarizer" ELSE "pdf_selector"

\* C9 (routing on an empty plan): once the planner has returned with an empty
\* step list, the run is in the pdf_selector or beyond it.
C9_EmptyPlanToSelection ==
    (steps = <<>> /\ Len(memory) >= 2) =>
        /\ node # "error"
        /\ Len(visited) >= 3
        /\ visited[3] = "pdf_selector"

IsPrefix(s, r) == Len(s) <= Len(r) /\ SubSeq(r, 1, Len(s)) = s

LongRoute == <<"meta_data_extractor", "planner", "pdf_selector",
               "rag_retriever", "summarizer", "END">>
DirectRoute == <<"meta_data_extractor", "planner", "summarizer", "END">>

\* C10 (pipeline order): the nodes entered form a prefix of one of the two
\* routes, and a run that has stopped has gone through a whole route to END.
C10_PipelineOrder ==
    /\ IsPrefix(visited, LongRoute) \/ IsPrefix(visited, DirectRoute)
    /\ node \in {"END", "error"} => visited \in {LongRoute, DirectRoute}

\* the role under which the stage of a node writes to state.memory
RoleOf ==
    [meta_data_extractor |-> "meta_data_agent", planner |-> "planner_agent",
     pdf_selector |-> "pdf_selector_agent", rag_retriever |-> "rag_retriever_agent",
     summarizer |-> "summarizer_agent"]

C12_RetrievalFailureReported ==
    [][/\ (node = "rag_retriever" /\ summary' = "error") =>
              source_citations' = <<>> /\ node' = "summarizer"
       /\ (node = "summarizer" /\ summary = "error") =>
              source_citations' = <<>> /\ node' = "END"]_vars

\* C13 (stage failure is never fatal): whatever the text-generation call
\* does, a step of the planner, the selector or the summarizer returns a
\* state, with the entry of the stage in state.memory, instead of ending the
\* run with the exception of the call.
C13_StageFailureNotFatal ==
    [][(node = "planner" \/ node = "pdf_selector" \/ node = "summarizer") =>
            memory' = Append(memory, RoleOf[node])]_vars

\* the documents whose file exists
Existing == {d \in DOMAIN files : Exists(d)}

Tier(doc) == GetDocumentPriority(PdfName(doc.source))

Before(a, b) ==
    \/ Tier(a) < Tier(b)
    \/ Tier(a) = Tier(b)
        /\ ContentLength(a.page_content) > ContentLength(b.page_content)

Texts(s) == {s[i].page_content : i \in 1..Len(s)}

NoTextTwice(s) ==
    \A i, j \in 1..Len(s) : s[i].page_content = s[j].page_content => i = j

\* C17 (de-duplication): all_docs after the merge loop has every text of the
\* search results, each once, and so has the list the tool ends with no
\* text twice.
C17_Deduplication ==
    tool.returned =>
        /\ Texts(tool.merged) = Texts(tool.docs)
        /\ NoTextTwice(tool.merged)
        /\ NoTextTwice(tool.all_docs)

\* the search returned one text twice, in one chunk stored twice and in
\* chunks of two documents
C17_Witness ==
    /\ tool.returned
    /\ \E i, j \in 1..Len(tool.docs) : i # j /\ tool.docs[i] = tool.docs[j]
    /\ \E i, j \in 1..Len(tool.docs) :
          /\ tool.docs[i].page_content = tool.docs[j].page_content
          /\ tool.docs[i].source # tool.docs[j].source

CitedLength(citation) == ContentLength(citation.relevant_content.of)

\* C19 (semantics of the citations): state.source_citations is in the order
\* of the retrieve tool, tier ascending and then length descending, cites no
\* chunk text twice and has at most 8 entries.
C19_CitationsRanked ==
    /\ Len(source_citations) <= 8
    /\ \A i, j \in 1..Len(source_citations) :
          /\ source_citations[i].relevant_content.of
                = source_citations[j].relevant_content.of => i = j
          /\ i < j =>
                \/ source_citations[i].priority < source_citations[j].priority
                \/ /\ source_citations[i].priority = source_citations[j].priority
                   /\ CitedLength(source_citations[i]) >= CitedLength(source_citations[j])

\* C20 (jurisdiction filter): when the query carries a jurisdiction hint,
\* every chunk cited in state.source_citations is of a document of that
\* jurisdiction; so with the hint for Vienna no chunk of Upper Austria is
\* cited.
C20_JurisdictionFilter ==
    JurisdictionHint(user_query) # "none" =>
        \A i \in 1..Len(source_citations) :
            Jurisdiction(PdfName(source_citations[i].pdf_name))
                = JurisdictionHint(user_query)

\* C21 (excerpt bound): relevant_content has at most 200 characters in every
\* citation, those of the retrieve tool and those of state.source_citations,
\* whatever the length of the chunk text.
C21_ExcerptBound ==
    \A citation \in Range(tool.source_citations) \cup Range(source_citations) :
        citation.relevant_content.length <= 200

\* the tier the prefix of a file name stands for: 1_ and 2_ laws and
\* regulations, 3_ guidelines, 4_ standards
PrefixTier(filename) ==
    CASE StartsWith(filename, <<"1", "_">>) -> 1
      [] StartsWith(filename, <<"2", "_">>) -> 1
      [] StartsWith(filename, <<"3", "_">>) -> 2
      [] StartsWith(filename, <<"4", "_">>) -> 3
      [] OTHER -> 4

\* C22 (authority tier from the file name): the tier a result is ranked by,
\* and the priority of its citation, is the one the prefix of the document's
\* file name stands for, also when the document's identity is a relative path
\* with folders.
C22_TierFromFileName ==
    /\ \A i \in 1..Len(tool.all_docs) :
          SortKey(tool.all_docs[i])[1]
              = PrefixTier(FileName(PdfName(tool.all_docs[i].source)))
    /\ \A citation \in Range(tool.source_citations) \cup Range(source_citations) :
          citation.priority = PrefixTier(FileName(PdfName(citation.pdf_name)))

\* C23 (per-document commit): when a batch is interrupted after chunks of it
\* were written to the collection, every document of the batch that has
\* chunks there has its registry entry and is not selected for embedding by
\* the call that resumes the batch.
C23_PerDocumentCommit ==
    [][\A kind \in InterruptKinds :
          (Interrupt(1, kind) /\ req[1].pc = "commit") =>
              \A d \in Range(req[1].todo) :
                  LoadPdf(d) # <<>> =>
                      /\ pdf_metadata'[d] # NoEntry
                      /\ GetPdfsToProcess(pdf_metadata', <<d>>) = <<>>]_vars

\* C24 (batch isolation): in a call whose batch has a document the loader
\* raises on, and whose add_documents returns, nothing is raised, no chunk of
\* such a document is written, and every document of the batch that yields
\* chunks has them written once more to the collection and has its stats
\* recorded in pdf_metadata, and in pdf_metadata.json when the file is saved.
C24_BatchIsolation ==
    [][\A names \in NamesArgs, saveOutcome \in SaveOutcomes :
          LET todo == GetPdfsToProcess(pdf_metadata, ExistingPdfs(names))
          IN  (/\ last'.op = "ensure"
               /\ \E d \in Range(todo) : Corrupt(files[d].content)
               /\ EnsurePdfsEmbedded(names, TRUE, saveOutcome)) =>
                  /\ ~last'.raised
                  /\ \A d \in Range(todo) :
                        IF LoadPdf(d) = <<>>
                        THEN \A ch \in BagToSet(vectorstore') :
                                ch.source = d =>
                                    CopiesIn(ch, vectorstore') = CopiesIn(ch, vectorstore)
                        ELSE /\ \A ch \in Range(LoadPdf(d)) :
                                    CopiesIn(ch, vectorstore')
                                        = CopiesIn(ch, vectorstore) + 1
                             /\ pdf_metadata'[d] = GetPdfStats(d)
                             /\ saveOutcome = "ok" =>
                                    metadata_file'[d] = GetPdfStats(d)]_vars

\* a call has returned whose batch had a document the loader raises on and a
\* document whose chunks it wrote and whose stats it recorded
C24_Witness ==
    /\ last.op = "ensure"
    /\ ~last.raised
    /\ last.ret
    /\ \E d, e \in Docs :
          /\ Exists(d) /\ Corrupt(files[d].content)
          /\ pdf_metadata[d] = GetPdfStats(d)
          /\ Exists(e) /\ LoadPdf(e) # <<>>
          /\ pdf_metadata[e] = GetPdfStats(e)
          /\ \A ch \in Range(LoadPdf(e)) : CopiesIn(ch, vectorstore) = 1

\* C25 (restart): an entry written to pdf_metadata.json stays there while
\* its document is not written again, and a new store opened on the persist
\* directory has the collection as it was and the entries of the file; so it
\* finds the entry of every document that was indexed and committed and does
\* not select the document for embedding while it is unchanged.
C25_RegistrySurvivesRestart ==
    [][/\ \A d \in Docs :
              (metadata_file[d] # NoEntry /\ files'[d] = files[d]) =>
                  metadata_file'[d] # NoEntry
       /\ last'.op = "restart" =>
              /\ vectorstore' = vectorstore
              /\ pdf_metadata' = metadata_file
              /\ \A d \in Docs :
                    (Exists(d) /\ metadata_file[d] = GetPdfStats(d)) =>
                        GetPdfsToProcess(pdf_metadata', <<d>>) = <<>>]_vars

\* C26 (reset): a reset whose delete_collection returns leaves the collection
\* empty, pdf_metadata empty and pdf_metadata.json without an entry, so that
\* the stats report no chunk and no document and every existing document is
\* selected for embedding; a reset whose delete_collection raises leaves all
\* three as they were.
C26_Reset ==
    [][\A deleteOk \in BOOLEAN, saveOutcome \in SaveOutcomes :
          ResetVectorStore(deleteOk, saveOutcome) =>
              IF deleteOk
              THEN /\ GetCollectionStats' = [total_chunks |-> 0, embedded_pdfs |-> 0]
                   /\ \A d \in Docs :
                         Exists(d) => GetPdfsToProcess(pdf_metadata', <<d>>) = <<d>>
                   /\ metadata_file' = EmptyMetadata
              ELSE /\ vectorstore' = vectorstore
                   /\ pdf_metadata' = pdf_metadata
                   /\ metadata_file' = metadata_file]_vars

\* C27 (deterministic merge): the list the tool ends with is the list it ends
\* with when the same search results arrive in the opposite order.
C27_DeterministicMerge ==
    tool.returned =>
        tool.all_docs = TopDocs(SortDocs(MergeQueries(<<Reverse(tool.docs)>>, <<>>)))

\* C28 (page number): every chunk the page loop appends has page >= 1 and
\* paragraph >= 1; the page number of a page is the number its label writes
\* when the page has a label of digits, and the page index plus one when it
\* has no label.
C28_PageNumber ==
    load.returned =>
        /\ \A i \in 1..Len(load.documents) :
              load.documents[i].page >= 1 /\ load.documents[i].paragraph >= 1
        /\ \A k \in 1..Len(load.pdf_documents) :
              LET page_label == load.pdf_documents[k].page_label
              IN  /\ IsDigit(page_label) => load.page_nums[k] = ToInt(page_label)
                  /\ page_label \in {NoLabel, <<>>} => load.page_nums[k] = k

\* a number: digits, or digits, a point and digits
IsNumber(t) ==
    \E a \in 1..Len(t) :
        /\ \A k \in 1..a : t[k] \in Digits
        /\ \/ a = Len(t)
           \/ /\ a + 2 <= Len(t)
              /\ t[a + 1] = "."
              /\ \A k \in (a + 2)..Len(t) : t[k] \in Digits

\* an area-unit token in any case: m^2, qm, Quadratmeter, square meter
IsAreaUnit(t) ==
    \/ Lower(t) \in {UnitM2, UnitQM, UnitQuadratmeter}
    \/ /\ Len(t) >= Len(WordSquare) + Len(WordMeter)
       /\ Lower(SubSeq(t, 1, Len(WordSquare))) = WordSquare
       /\ Lower(SubSeq(t, Len(t) - Len(WordMeter) + 1, Len(t))) = WordMeter
       /\ \A k \in (Len(WordSquare) + 1)..(Len(t) - Len(WordMeter)) :
             t[k] \in Whitespace

\* the positions after the occurrences that start at i of a number followed,
\* after any whitespace, by an area-unit token
OccurrenceEnds(s, i) ==
    IF s[i] \notin Digits THEN {}
    ELSE {j \in (i + 1)..(Len(s) + 1) :
             \E a \in (i + 1)..j :
                 /\ IsNumber(SubSeq(s, i, a - 1))
                 /\ \E c \in a..j :
                       /\ \A k \in a..(c - 1) : s[k] \in Whitespace
                       /\ IsAreaUnit(SubSeq(s, c, j - 1))}

\* C29 (area detection): the area measurements found in the example text are
\* "100 m^2" and "10 m^2"; in every text, each occurrence of a number
\* followed by an area-unit token is listed, as it stands or with the digits
\* before it, each listed text is such an occurrence, and there is one entry
\* for every place where occurrences end.
C29_AreaDetection ==
    scan.returned =>
        LET s == scan.page_content
            found == scan.area_measurements
        IN  /\ s = BaseArea =>
                  found = <<<<"1", "0", "0", " ", "m", "^2">>,
                            <<"1", "0", " ", "m", "^2">>>>
            /\ \A i \in 1..Len(s) : \A j \in OccurrenceEnds(s, i) :
                  \E k \in 1..Len(found), h \in 1..i :
                      found[k] = SubSeq(s, h, j - 1)
            /\ \A k \in 1..Len(found) :
                  \E i \in 1..Len(s) : \E j \in OccurrenceEnds(s, i) :
                      found[k] = SubSeq(s, i, j - 1)
            /\ Len(found) = Cardinality(UNION {OccurrenceEnds(s, i) : i \in 1..Len(s)})

\* the example text has been searched and both measurements were found
C29_Witness ==
    /\ scan.returned
    /\ scan.page_content = BaseArea
    /\ Len(scan.area_measurements) = 2

\* the last k of the messages, in their order
LastMessages(messages, k) == SubSeq(messages, Len(messages) - k + 1, Len(messages))

\* C30: get_conversation of an id create_conversation returned gives exactly
\* the messages add_message took for it, in the order in which they were
\* added, and get_conversation_history gives the last min(n, limit) of them
C30_ConversationRoundTrip ==
    \A id \in DOMAIN storage.sent :
        storage.result.id = id =>
            /\ storage.result.op = "get" =>
                  /\ storage.result.found
                  /\ storage.result.messages = storage.sent[id]
            /\ storage.result.op = "history" =>
                  storage.result.messages =
                      LastMessages(storage.sent[id],
                                   IF Len(storage.sent[id]) < storage.result.limit
                                   THEN Len(storage.sent[id])
                                   ELSE storage.result.limit)

\* what get_conversation gives for the id: found, and the messages
StoredConversation(id) ==
    IF storage.mongodb /\ id \in DOMAIN storage.mongo
    THEN [found |-> TRUE, messages |-> storage.mongo[id]]
    ELSE IF id \in DOMAIN storage.json
    THEN [found |-> TRUE, messages |-> storage.json[id]]
    ELSE [found |-> FALSE, messages |-> <<>>]

\* C31: when /chat has returned with the conversation id c, the conversation
\* c of the store ends with the user's message followed by the assistant's
\* reply, and the history given to the pipeline is the one of the messages
\* before them
C31_ChatPersistence ==
    storage.result.op = "chat" /\ storage.result.found =>
        LET c == StoredConversation(storage.result.id)
            n == Len(c.messages)
        IN  /\ c.found
            /\ n >= 2
            /\ SubSeq(c.messages, n - 1, n) = storage.result.stored
            /\ storage.result.messages =
                  RecentMessages(SubSeq(c.messages, 1, n - 2), 5)

\* C32: when MongoDB is available, the MongoDB backend and the JSON backend
\* hold the same conversation ids with the same message sequences
C32_ReplicationUnderOneIdentity ==
    storage.mongodb =>
        /\ DOMAIN storage.mongo = DOMAIN storage.json
        /\ \A id \in DOMAIN storage.json : storage.mongo[id] = storage.json[id]

\* the response is the text of a JSON object
ParsedObject(response) ==
    /\ ~response.raises
    /\ response.is_str
    /\ ~response.fenced
    /\ response.type = "object"

\* C33: should_use_agent does not raise; it returns use_agent = true when the
\* model call fails, when the response is not valid JSON, when the JSON is
\* not an object and when the object has no use_agent key; it returns
\* use_agent = false only for an object whose use_agent is false
C33_GateFailSafe ==
    gate.returned =>
        /\ ~gate.raised
        /\ ~ParsedObject(gate.response) => gate.use_agent = "true"
        /\ ParsedObject(gate.response) /\ gate.response.use_agent = Absent =>
              gate.use_agent = "true"
        /\ gate.use_agent = "false" =>
              ParsedObject(gate.response) /\ gate.response.use_agent = "false"

\* the gate has answered true to a response that is the text of a JSON
\* array
C33_Witness ==
    /\ gate.returned
    /\ ~gate.response.raises
    /\ gate.response.is_str
    /\ ~gate.response.fenced
    /\ gate.response.type = "array"
    /\ gate.use_agent = "true"

\* C34: no two chunks produced for one document have the same chunk_id,
\* whatever the labels of its pages
C34_ChunkIdUnique ==
    load.returned =>
        \A i, j \in 1..Len(load.documents) :
            i # j => load.documents[i].chunk_id # load.documents[j].chunk_id

\* C35: every citation the retriever stores in the state refers to a
\* document that is in pdf_names
C35_CitationsFromSelection ==
    \A i \in 1..Len(source_citations) :
        \E j \in 1..Len(pdf_names) : pdf_names[j] = source_citations[i].pdf_name

\* the entries of the collection that come from document d
EntriesOf(store, d) == {ch \in BagToSet(store) : ch.source = d}

\* C36: a retriever step with an empty pdf_names whose store call returns
\* leaves every chunk of every loadable document of the corpus in the
\* collection; a retriever step with a non-empty pdf_names changes neither
\* the registry entry nor the chunks of a document that is not in pdf_names
\* or does not exist
C36_EmptySelectionMeansCorpus ==
    [][node = "rag_retriever" /\ node' = "summarizer" =>
        /\ (pdf_names = <<>> /\ ~last'.raised) =>
              \A d \in DOMAIN files :
                  Exists(d) =>
                      \A i \in 1..Len(LoadPdf(d)) :
                          CopiesIn(LoadPdf(d)[i], vectorstore') >= 1
        /\ pdf_names # <<>> =>
              \A d \in DOMAIN files :
                  (d \notin Range(pdf_names) \/ ~Exists(d)) =>
                      /\ pdf_metadata'[d] = pdf_metadata[d]
                      /\ EntriesOf(vectorstore', d) = EntriesOf(vectorstore, d)
                      /\ \A ch \in EntriesOf(vectorstore, d) :
                            CopiesIn(ch, vectorstore') = CopiesIn(ch, vectorstore)
    ]_vars

\* the retriever has run with an empty pdf_names on a corpus with loadable
\* documents, and the collection has their chunks
C36_Witness ==
    /\ node = "summarizer"
    /\ pdf_names = <<>>
    /\ last.op = "ensure"
    /\ ~last.raised
    /\ \E d \in DOMAIN files : Exists(d) /\ LoadPdf(d) # <<>>
    /\ BagCardinality(vectorstore) >= MaxDocs

\* C37: a run that has gone from the planner directly to the summarizer and
\* has reached END has empty pdf_names and source_citations, no entry of the
\* selector or of the retriever in state.memory, and has left the collection,
\* the registry and the registry file as they were when it began
C37_DirectRouteFrame ==
    (node = "END" /\ visited = DirectRoute) =>
        /\ pdf_names = <<>>
        /\ source_citations = <<>>
        /\ \A i \in 1..Len(memory) :
              memory[i] # "pdf_selector_agent" /\ memory[i] # "rag_retriever_agent"
        /\ vectorstore = EmptyBag
        /\ pdf_metadata = EmptyMetadata
        /\ metadata_file = EmptyMetadata

\* a run on a corpus with documents has reached END on the direct route
C37_Witness ==
    /\ node = "END"
    /\ visited = DirectRoute
    /\ \E d \in DOMAIN files : Exists(d)
    /\ summary = "answer"

\* the word occurs in the text, whatever the case of the letters of the text
Occurs(word, text) ==
    \E before, after \in 0..Len(text) :
        /\ before + Len(word) + after = Len(text)
        /\ \A i \in 1..Len(word) : Lower(<<text[before + i]>>) = <<word[i]>>

NamesUpperAustria(text) ==
    \/ Occurs(<<"l", "i", "n", "z">>, text)
    \/ Occurs(<<"o", "b", "e", "r", "oe", "s", "t", "e", "r", "r", "e", "i", "c", "h">>, text)
    \/ Occurs(<<"u", "p", "p", "e", "r", " ", "a", "u", "s", "t", "r", "i", "a">>, text)
    \/ Occurs(<<"o", "oe">>, text)
    \/ Occurs(<<"o", "o">>, text)

NamesVienna(text) ==
    Occurs(<<"w", "i", "e", "n">>, text) \/ Occurs(<<"v", "i", "e", "n", "n", "a">>, text)

\* C38: the hint is Upper Austria when "linz", "oberoesterreich", "upper
\* austria", "o" with o-umlaut or "oo" occurs in the lower-cased query, else
\* Vienna when "wien" or "vienna" occurs, else none; so a query naming
\* Vienna has the hint Vienna exactly when no keyword of Upper Austria
\* occurs in it
C38_JurisdictionHint ==
    hint.returned =>
        /\ hint.jurisdiction_hint =
              IF NamesUpperAustria(hint.user_query) THEN "upper_austria"
              ELSE IF NamesVienna(hint.user_query) THEN "vienna"
              ELSE "none"
        /\ NamesVienna(hint.user_query) =>
              (hint.jurisdiction_hint = "vienna"
                  <=> ~NamesUpperAustria(hint.user_query))

\* a query that names Vienna and has "oo" in it has got the hint Upper
\* Austria
C38_Witness ==
    /\ hint.returned
    /\ NamesVienna(hint.user_query)
    /\ Occurs(<<"o", "o">>, hint.user_query)
    /\ ~Occurs(<<"l", "i", "n", "z">>, hint.user_query)
    /\ hint.jurisdiction_hint = "upper_austria"

====
